---------------------------- MODULE Spec2Model ----------------------------
(***************************************************************************)
(* Model of source/inner_models.py: the Generator and Discriminator of a   *)
(* DCGAN / context-encoder model.  One object of either class is modelled: *)
(* its fields, the layer stack build() assigns to main, the shape          *)
(* arithmetic forward() runs through that stack, the optimizer             *)
(* define_optim() binds, and the class-name dispatch of init_weights.      *)
(*                                                                         *)
(* Tensors are modelled by their per-image shape  channels x height x      *)
(* width (the batch dimension is carried along unchanged by every layer).  *)
(* Parameter values are modelled by the distribution they were last drawn  *)
(* from; means and standard deviations are in hundredths (0.02 is 2).      *)
(***************************************************************************)
EXTENDS Integers, Sequences, FiniteSets, TLC

VARIABLES cls,            \* "Generator" or "Discriminator"
          latent_vector,  \* self.latent_vector
          feature_map,    \* self.feature_map
          channels,       \* self.channels
          conditional,    \* self.conditional
          criterion,      \* self.criterion
          optimizer,      \* self.optimizer
          main,           \* self.main
          layer,          \* a module outside main that init_weights may be given
          builds,         \* number of Sequential objects created so far
          inits,          \* number of init_weights calls so far
          ret             \* outcome of the latest call on the object

vars == <<cls, latent_vector, feature_map, channels, conditional, criterion,
          optimizer, main, layer, builds, inits, ret>>

\* ------------------------------------------------------------------ bounds
MaxLatent == 2
MaxFeatureMap == 2
MaxChannels == 2
MaxBuilds == 3
MaxInits == 1

LatentSizes == 1..MaxLatent
FeatureMaps == 1..MaxFeatureMap
ChannelCounts == 1..MaxChannels

\* ------------------------------------------------------------- Python None
None == [kind |-> "NoneType"]

\* ------------------------------------------------ parameter initialisation
\* The state of a parameter tensor's data: as the layer constructor left it,
\* or the distribution an nn.init call drew it from.
Default == [dist |-> "default"]
Absent == [dist |-> "absent"]
normal_(mean, std) == [dist |-> "normal", mean |-> mean, std |-> std]
constant_(val) == [dist |-> "constant", val |-> val]

\* --------------------------------------------------------- layer objects
Module(kind, cin, cout, k, s, p, w, b) ==
    [kind |-> kind, cin |-> cin, cout |-> cout, k |-> k, s |-> s, p |-> p,
     weight |-> w, bias |-> b]

Conv2d(cin, cout, k, s, p, bias) ==
    Module("Conv2d", cin, cout, k, s, p, Default,
           IF bias THEN Default ELSE Absent)

ConvTranspose2d(cin, cout, k, s, p, bias) ==
    Module("ConvTranspose2d", cin, cout, k, s, p, Default,
           IF bias THEN Default ELSE Absent)

BatchNorm2d(n) == Module("BatchNorm2d", n, n, 0, 1, 0, Default, Default)

Activation(kind) == Module(kind, 0, 0, 0, 1, 0, Absent, Absent)
LeakyReLU == Activation("LeakyReLU")
ReLU == Activation("ReLU")
Tanh == Activation("Tanh")
Sigmoid == Activation("Sigmoid")

\* Modules that are not part of any stack build() makes, which a caller can
\* still hand to init_weights: a Linear layer, the BatchNorm1d the file
\* imports, and a user-defined fused block whose class name holds both
\* 'Conv' and 'BatchNorm'.
Linear(cin, cout) == Module("Linear", cin, cout, 0, 1, 0, Default, Default)
BatchNorm1d(n) == Module("BatchNorm1d", n, n, 0, 1, 0, Default, Default)
ConvBatchNorm2d(cin, cout) ==
    Module("ConvBatchNorm2d", cin, cout, 1, 1, 0, Default, Default)
ForeignModules == {Linear(1, 1), BatchNorm1d(1), ConvBatchNorm2d(1, 1)}


\* ------------------------------------------------------- the layer stacks
BottleneckChannels == 4000

\* Generator.build, conditional branch: the context encoder network.
ContextEncoder(fm, ch) ==
    << Conv2d(ch, fm, 4, 2, 1, TRUE),
       LeakyReLU,
       Conv2d(fm, fm, 4, 2, 1, TRUE),
       BatchNorm2d(fm),
       LeakyReLU,
       Conv2d(fm, fm * 2, 4, 2, 1, TRUE),
       BatchNorm2d(fm * 2),
       LeakyReLU,
       Conv2d(fm * 2, fm * 4, 4, 2, 1, TRUE),
       BatchNorm2d(fm * 4),
       LeakyReLU,
       Conv2d(fm * 4, fm * 8, 4, 2, 1, TRUE),
       BatchNorm2d(fm * 8),
       LeakyReLU,
       Conv2d(fm * 8, BottleneckChannels, 4, 1, 0, TRUE),
       BatchNorm2d(BottleneckChannels),
       ReLU,
       ConvTranspose2d(fm * 8, fm * 4, 4, 2, 1, TRUE),
       BatchNorm2d(fm * 4),
       ReLU,
       ConvTranspose2d(fm * 4, fm * 2, 4, 2, 1, TRUE),
       BatchNorm2d(fm * 2),
       ReLU,
       ConvTranspose2d(fm * 2, fm, 4, 2, 1, TRUE),
       BatchNorm2d(fm),
       ReLU,
       ConvTranspose2d(fm, ch, 4, 2, 1, TRUE),
       Tanh >>

\* DCGAN with the first transposed convolution given the stride and padding
\* of the others (4, 2, 1 instead of 4, 1, 0).
DCGAN_FirstStride2(lv, fm, ch) ==
    << ConvTranspose2d(lv, fm * 8, 4, 2, 1, FALSE),
       BatchNorm2d(fm * 8),
       ReLU,
       ConvTranspose2d(fm * 8, fm * 4, 4, 2, 1, FALSE),
       BatchNorm2d(fm * 4),
       ReLU,
       ConvTranspose2d(fm * 4, fm * 2, 4, 2, 1, FALSE),
       BatchNorm2d(fm * 2),
       ReLU,
       ConvTranspose2d(fm * 2, fm, 4, 2, 1, FALSE),
       BatchNorm2d(fm),
       ReLU,
       ConvTranspose2d(fm, ch, 4, 2, 1, FALSE),
       Tanh >>

\* Generator.build, else branch: the DCGAN network.
DCGAN(lv, fm, ch) ==
    << ConvTranspose2d(lv, fm * 8, 4, 1, 0, FALSE),
       BatchNorm2d(fm * 8),
       ReLU,
       ConvTranspose2d(fm * 8, fm * 4, 4, 2, 1, FALSE),
       BatchNorm2d(fm * 4),
       ReLU,
       ConvTranspose2d(fm * 4, fm * 2, 4, 2, 1, FALSE),
       BatchNorm2d(fm * 2),
       ReLU,
       ConvTranspose2d(fm * 2, fm, 4, 2, 1, FALSE),
       BatchNorm2d(fm),
       ReLU,
       ConvTranspose2d(fm, ch, 4, 2, 1, FALSE),
       Tanh >>

\* GeneratorStack with the test of the flag inverted.
GeneratorStack_Inverted(cond, lv, fm, ch) ==
    IF ~cond THEN ContextEncoder(fm, ch) ELSE DCGAN(lv, fm, ch)

\* The stack Generator.build assigns to main.
GeneratorStack(cond, lv, fm, ch) ==
    IF cond THEN ContextEncoder(fm, ch) ELSE DCGAN(lv, fm, ch)

\* DiscriminatorStack with the last convolution given the stride and padding
\* of the others (4, 2, 1 instead of 4, 1, 0).
DiscriminatorStack_LastStride2(cond, lv, fm, ch) ==
    LET bias == IF cond THEN TRUE ELSE FALSE
    IN << Conv2d(ch, fm, 4, 2, 1, bias),
          LeakyReLU,
          Conv2d(fm, fm * 2, 4, 2, 1, bias),
          BatchNorm2d(fm * 2),
          LeakyReLU,
          Conv2d(fm * 2, fm * 4, 4, 2, 1, bias),
          BatchNorm2d(fm * 4),
          LeakyReLU,
          Conv2d(fm * 4, fm * 8, 4, 2, 1, bias),
          BatchNorm2d(fm * 8),
          LeakyReLU,
          Conv2d(fm * 8, 1, 4, 2, 1, bias),
          Sigmoid >>

\* The stack Discriminator.build assigns to main.  The flag only sets bias=;
\* the stored latent_vector is not used.
DiscriminatorStack(cond, lv, fm, ch) ==
    LET bias == IF cond THEN TRUE ELSE FALSE
    IN << Conv2d(ch, fm, 4, 2, 1, bias),
          LeakyReLU,
          Conv2d(fm, fm * 2, 4, 2, 1, bias),
          BatchNorm2d(fm * 2),
          LeakyReLU,
          Conv2d(fm * 2, fm * 4, 4, 2, 1, bias),
          BatchNorm2d(fm * 4),
          LeakyReLU,
          Conv2d(fm * 4, fm * 8, 4, 2, 1, bias),
          BatchNorm2d(fm * 8),
          LeakyReLU,
          Conv2d(fm * 8, 1, 4, 1, 0, bias),
          Sigmoid >>

Stack(c, cond, lv, fm, ch) ==
    IF c = "Generator" THEN GeneratorStack(cond, lv, fm, ch)
    ELSE DiscriminatorStack(cond, lv, fm, ch)

\* nn.Sequential(...): a fresh container object, told apart by its id.
Sequential(id, layers) ==
    [kind |-> "Sequential", id |-> id, layers |-> layers]

\* ------------------------------------------------------ shape arithmetic
Shape(c, h, w) == [c |-> c, h |-> h, w |-> w]
NoShape == [c |-> 0, h |-> 0, w |-> 0]

\* Output size of a convolution along one axis.
ConvSize(h, k, s, p) == ((h + 2 * p - k) \div s) + 1
\* Output size of a transposed convolution along one axis.
ConvTransposeSize(h, k, s, p) == (h - 1) * s - 2 * p + k

\* One layer applied to a tensor of shape x: the shape it returns, or
\* NoShape when the library raises a RuntimeError.
LayerForward(l, x) ==
    IF l.kind = "Conv2d" THEN
        IF x.c # l.cin \/ x.h + 2 * l.p < l.k \/ x.w + 2 * l.p < l.k
        THEN NoShape
        ELSE Shape(l.cout, ConvSize(x.h, l.k, l.s, l.p),
                   ConvSize(x.w, l.k, l.s, l.p))
    ELSE IF l.kind = "ConvTranspose2d" THEN
        IF x.c # l.cin \/ ConvTransposeSize(x.h, l.k, l.s, l.p) < 1
                       \/ ConvTransposeSize(x.w, l.k, l.s, l.p) < 1
        THEN NoShape
        ELSE Shape(l.cout, ConvTransposeSize(x.h, l.k, l.s, l.p),
                   ConvTransposeSize(x.w, l.k, l.s, l.p))
    ELSE IF l.kind = "BatchNorm2d" THEN
        IF x.c # l.cin THEN NoShape ELSE x
    ELSE x

\* Sequential.forward: the layers in order, stopping at the first that
\* raises.  trace[i] is the shape layer i returned.
RECURSIVE RunFrom(_, _, _, _)
RunFrom(layers, i, x, trace) ==
    IF i > Len(layers) THEN [ok |-> TRUE, out |-> x, trace |-> trace]
    ELSE LET y == LayerForward(layers[i], x)
         IN IF y = NoShape
            THEN [ok |-> FALSE, out |-> NoShape, trace |-> trace]
            ELSE RunFrom(layers, i + 1, y, Append(trace, y))

Run(seq, x) == RunFrom(seq.layers, 1, x, <<>>)

\* self.main(input): None is not callable.
CallMain(m, input) ==
    IF m = None
    THEN [ok |-> FALSE, err |-> "TypeError", out |-> NoShape, trace |-> <<>>]
    ELSE LET r == Run(m, input)
         IN [ok |-> r.ok, err |-> IF r.ok THEN "" ELSE "RuntimeError",
             out |-> r.out, trace |-> r.trace]

\* ------------------------------------------------------------- optimizer
\* main.parameters(): the weight and bias tensors of the container's layers,
\* each identified by the container it lives in, its layer and its name.
parameters(seq) ==
    {<<seq.id, i, "weight">> :
        i \in {j \in 1..Len(seq.layers) : seq.layers[j].weight # Absent}}
    \cup
    {<<seq.id, i, "bias">> :
        i \in {j \in 1..Len(seq.layers) : seq.layers[j].bias # Absent}}

\* optim.Adam(params, lr=..., betas=...); lr in ten-thousandths, betas in
\* thousandths.
Adam(params, lr, betas) ==
    [kind |-> "Adam", params |-> params, lr |-> lr, betas |-> betas]

Beta2 == 999

\* MakeOptim that tolerates a missing graph and binds an optimizer to no
\* parameters.
MakeOptim_Unchecked(m, learning_rate, beta1) ==
    [ok |-> TRUE, err |-> "",
     optimizer |-> Adam(IF m = None THEN {} ELSE parameters(m),
                        learning_rate, <<beta1, Beta2>>)]

\* optim.Adam(self.main.parameters(), ...): None has no attribute parameters.
MakeOptim(m, learning_rate, beta1) ==
    IF m = None
    THEN [ok |-> FALSE, err |-> "AttributeError", optimizer |-> None]
    ELSE [ok |-> TRUE, err |-> "",
          optimizer |-> Adam(parameters(m), learning_rate, <<beta1, Beta2>>)]

\* ---------------------------------------------------------- init_weights
\* str.find: the 0-based index of the first occurrence of sub in s, or -1.
find(s, sub) ==
    LET hits == {i \in 1..(Len(s) - Len(sub) + 1) :
                    SubSeq(s, i, i + Len(sub) - 1) = sub}
    IN IF hits = {} THEN -1
       ELSE (CHOOSE i \in hits : \A j \in hits : i <= j) - 1

\* Generator.init_weights with the two tests in the other order.
Generator_init_weights_BatchNormFirst(layers) ==
    LET classname == layers.kind
    IN IF find(classname, "BatchNorm") # -1
       THEN [layers EXCEPT !.weight = normal_(100, 2), !.bias = constant_(0)]
       ELSE IF find(classname, "Conv") # -1
       THEN [layers EXCEPT !.weight = normal_(0, 2)]
       ELSE layers

\* Generator.init_weights: the module as the call leaves it.
Generator_init_weights(layers) ==
    LET classname == layers.kind
    IN IF find(classname, "Conv") # -1
       THEN [layers EXCEPT !.weight = normal_(0, 2)]
       ELSE IF find(classname, "BatchNorm") # -1
       THEN [layers EXCEPT !.weight = normal_(100, 2), !.bias = constant_(0)]
       ELSE layers

\* Discriminator.init_weights: the module as the call leaves it.
Discriminator_init_weights(layers) ==
    LET classname == layers.kind
    IN IF find(classname, "Conv") # -1
       THEN [layers EXCEPT !.weight = normal_(0, 2)]
       ELSE IF find(classname, "BatchNorm") # -1
       THEN [layers EXCEPT !.weight = normal_(100, 2), !.bias = constant_(0)]
       ELSE layers

\* --------------------------------------------------------------- inputs
ImageSize == 64
Inputs == {Shape(c, n, n) : c \in ChannelCounts \cup LatentSizes,
                            n \in {1, ImageSize}}
LearningRates == {1, 2}
Beta1s == {500}

\* The outcome of a call, as the caller sees it.
Outcome(op, ok, err, arg, input, out, trace) ==
    [op |-> op, ok |-> ok, err |-> err, arg |-> arg, input |-> input,
     out |-> out, trace |-> trace]

\* -------------------------------------------------------------- actions
\* Generator(...) / Discriminator(...): the object after __init__.
Init ==
    /\ cls \in {"Generator", "Discriminator"}
    /\ latent_vector \in LatentSizes
    /\ feature_map \in FeatureMaps
    /\ channels \in ChannelCounts
    /\ conditional \in BOOLEAN
    /\ criterion = None
    /\ optimizer = None
    /\ main = None
    /\ layer = None
    /\ builds = 0
    /\ inits = 0
    /\ ret = Outcome("__init__", TRUE, "", 0, NoShape, NoShape, <<>>)

\* Generator.build that also drops the optimizer of the graph it replaces.
Generator_build_DropsOptimizer ==
    /\ cls = "Generator"
    /\ builds < MaxBuilds
    /\ main' = Sequential(builds + 1,
                  GeneratorStack(conditional, latent_vector, feature_map,
                                 channels))
    /\ optimizer' = None
    /\ builds' = builds + 1
    /\ ret' = Outcome("build", TRUE, "", 0, NoShape, NoShape, <<>>)
    /\ UNCHANGED <<cls, latent_vector, feature_map, channels, conditional,
                   criterion, layer, inits>>

Generator_build ==
    /\ cls = "Generator"
    /\ builds < MaxBuilds
    /\ main' = Sequential(builds + 1,
                  GeneratorStack(conditional, latent_vector, feature_map,
                                 channels))
    /\ builds' = builds + 1
    /\ ret' = Outcome("build", TRUE, "", 0, NoShape, NoShape, <<>>)
    /\ UNCHANGED <<cls, latent_vector, feature_map, channels, conditional,
                   criterion, optimizer, layer, inits>>

Discriminator_build ==
    /\ cls = "Discriminator"
    /\ builds < MaxBuilds
    /\ main' = Sequential(builds + 1,
                  DiscriminatorStack(conditional, latent_vector, feature_map,
                                     channels))
    /\ builds' = builds + 1
    /\ ret' = Outcome("build", TRUE, "", 0, NoShape, NoShape, <<>>)
    /\ UNCHANGED <<cls, latent_vector, feature_map, channels, conditional,
                   criterion, optimizer, layer, inits>>

Generator_forward(input) ==
    /\ cls = "Generator"
    /\ LET r == CallMain(main, input)
       IN ret' = Outcome("forward", r.ok, r.err, 0, input, r.out, r.trace)
    /\ UNCHANGED <<cls, latent_vector, feature_map, channels, conditional,
                   criterion, optimizer, main, layer, builds, inits>>

Discriminator_forward(input) ==
    /\ cls = "Discriminator"
    /\ LET r == CallMain(main, input)
       IN ret' = Outcome("forward", r.ok, r.err, 0, input, r.out, r.trace)
    /\ UNCHANGED <<cls, latent_vector, feature_map, channels, conditional,
                   criterion, optimizer, main, layer, builds, inits>>

Generator_define_optim(learning_rate, beta1) ==
    /\ cls = "Generator"
    /\ LET r == MakeOptim(main, learning_rate, beta1)
       IN /\ optimizer' = IF r.ok THEN r.optimizer ELSE optimizer
          /\ ret' = Outcome("define_optim", r.ok, r.err, 0, NoShape, NoShape,
                            <<>>)
    /\ UNCHANGED <<cls, latent_vector, feature_map, channels, conditional,
                   criterion, main, layer, builds, inits>>

Discriminator_define_optim(learning_rate, beta1) ==
    /\ cls = "Discriminator"
    /\ LET r == MakeOptim(main, learning_rate, beta1)
       IN /\ optimizer' = IF r.ok THEN r.optimizer ELSE optimizer
          /\ ret' = Outcome("define_optim", r.ok, r.err, 0, NoShape, NoShape,
                            <<>>)
    /\ UNCHANGED <<cls, latent_vector, feature_map, channels, conditional,
                   criterion, main, layer, builds, inits>>

\* The static method of the object's class.
init_weights(c, layers) ==
    IF c = "Generator" THEN Generator_init_weights(layers)
    ELSE Discriminator_init_weights(layers)

\* The modules of main a caller can reach: 0 is main itself, t >= 1 its
\* t-th layer.
Targets == IF main = None THEN {0} ELSE 0..Len(main.layers)

\* init_weights(self.main[t - 1]) for t >= 1, init_weights(self.main) for
\* t = 0: the module is changed in place.
InitMainLayer(t) ==
    /\ inits < MaxInits
    /\ t \in Targets
    /\ main' = IF t = 0 THEN init_weights(cls, main)
               ELSE [main EXCEPT !.layers[t] = init_weights(cls, @)]
    /\ inits' = inits + 1
    /\ ret' = Outcome("init_weights", TRUE, "", t, NoShape, NoShape, <<>>)
    /\ UNCHANGED <<cls, latent_vector, feature_map, channels, conditional,
                   criterion, optimizer, layer, builds>>

\* init_weights(m) for a freshly constructed module m outside main.
InitForeign(m) ==
    /\ inits < MaxInits
    /\ layer' = init_weights(cls, m)
    /\ inits' = inits + 1
    /\ ret' = Outcome("init_weights", TRUE, "", -1, NoShape, NoShape, <<>>)
    /\ UNCHANGED <<cls, latent_vector, feature_map, channels, conditional,
                   criterion, optimizer, main, builds>>

build == Generator_build \/ Discriminator_build
forward == \E input \in Inputs :
              Generator_forward(input) \/ Discriminator_forward(input)
define_optim == \E lr \in LearningRates, b \in Beta1s :
                   Generator_define_optim(lr, b)
                   \/ Discriminator_define_optim(lr, b)
apply_init_weights == \/ \E t \in Targets : InitMainLayer(t)
                      \/ \E m \in ForeignModules : InitForeign(m)

\* The object's life: build, forward and define_optim in any order.
Next == build \/ forward \/ define_optim
Spec == Init /\ [][Next]_vars

\* Weight initialisation: build, and init_weights on modules, in any order.
NextWeights == build \/ apply_init_weights
SpecWeights == Init /\ [][NextWeights]_vars

\* ---------------------------------------------------- shared vocabulary
\* A class name contains the given word.
Contains(name, word) ==
    \E i \in 1..Len(name) : i + Len(word) - 1 <= Len(name)
                            /\ SubSeq(name, i, i + Len(word) - 1) = word

IsConv(l) == Contains(l.kind, "Conv")
IsBatchNorm(l) == Contains(l.kind, "BatchNorm")
ConvIndices(layers) == {i \in 1..Len(layers) : IsConv(layers[i])}
Kinds(layers) == [i \in 1..Len(layers) |-> layers[i].kind]

\* The n-th smallest member of a finite set of integers.
RECURSIVE Nth(_, _)
Nth(S, n) ==
    LET m == CHOOSE x \in S : \A y \in S : x <= y
    IN IF n = 1 THEN m ELSE Nth(S \ {m}, n - 1)

\* The shapes the convolutions of the stack returned in the latest forward
\* call, in order.
ConvOutputs ==
    LET idx == {i \in ConvIndices(main.layers) : i <= Len(ret.trace)}
    IN [n \in 1..Cardinality(idx) |-> ret.trace[Nth(idx, n)]]

Heights(shapes) == [n \in 1..Len(shapes) |-> shapes[n].h]

\* In the latest forward call every layer ran, and every layer that declares
\* an input width received exactly that many channels.
EveryLayerFed ==
    /\ Len(ret.trace) = Len(main.layers)
    /\ \A i \in 1..Len(main.layers) :
          (IsConv(main.layers[i]) \/ IsBatchNorm(main.layers[i]))
          => main.layers[i].cin =
                (IF i = 1 THEN ret.input.c ELSE ret.trace[i - 1].c)

Called(op) == ret.op = op

\* ------------------------------------------------------------- claim C1
\* C1: forward() and define_optim() complete successfully only if build()
\* was called earlier; called before any build() each raises an error and
\* the failed call leaves main and optimizer equal to None.
C1_BuildBeforeUse ==
    (Called("forward") \/ Called("define_optim")) =>
        /\ ret.ok => builds >= 1
        /\ builds = 0 =>
              /\ ~ret.ok
              /\ ret.err \in {"TypeError", "AttributeError"}
              /\ main = None
              /\ optimizer = None

C1_Witness == Called("define_optim") /\ builds = 0 /\ ~ret.ok

\* ------------------------------------------------------------- claim C2
\* C2: whenever optimizer is not None it is bound to the parameters of the
\* object's current main graph, also after build(), define_optim(), build().
C2_OptimizerBoundToMain ==
    optimizer # None =>
        main # None /\ optimizer.params = parameters(main)

\* ------------------------------------------------------------- claim C3
\* C3: for a conditional Generator, after build(), forward() of an input of
\* shape channels x 64 x 64 runs through every layer without a shape error
\* and returns channels x 64 x 64, the spatial size being 32, 16, 8, 4 after
\* the encoder convolutions and 8, 16, 32, 64 after the decoder's transposed
\* convolutions.
C3_ContextEncoderForward ==
    ( /\ cls = "Generator" /\ conditional /\ main # None
      /\ Called("forward")
      /\ ret.input = Shape(channels, ImageSize, ImageSize) )
    => /\ ret.ok
       /\ EveryLayerFed
       /\ ret.out = Shape(channels, ImageSize, ImageSize)
       /\ SubSeq(Heights(ConvOutputs), 1, 4) = <<32, 16, 8, 4>>
       /\ SubSeq(Heights(ConvOutputs), Len(ConvOutputs) - 3,
                 Len(ConvOutputs)) = <<8, 16, 32, 64>>

\* ------------------------------------------------------------- claim C4
\* C4: for a Generator with conditional False, after build(), forward() of
\* an input of shape latent_vector x 1 x 1 passes through (feature_map*8) x
\* 4 x 4, (feature_map*4) x 8 x 8, (feature_map*2) x 16 x 16, feature_map x
\* 32 x 32 in that order and returns channels x 64 x 64, every layer's
\* expected input channel count matching what it receives.
C4_DCGANForward ==
    ( /\ cls = "Generator" /\ ~conditional /\ main # None
      /\ Called("forward")
      /\ ret.input = Shape(latent_vector, 1, 1) )
    => /\ ret.ok
       /\ EveryLayerFed
       /\ ConvOutputs = << Shape(feature_map * 8, 4, 4),
                           Shape(feature_map * 4, 8, 8),
                           Shape(feature_map * 2, 16, 16),
                           Shape(feature_map, 32, 32),
                           Shape(channels, 64, 64) >>
       /\ ret.out = Shape(channels, 64, 64)

C4_Witness ==
    /\ cls = "Generator" /\ ~conditional /\ main # None
    /\ Called("forward") /\ ret.input = Shape(latent_vector, 1, 1)
    /\ ret.ok /\ ret.out = Shape(channels, 64, 64)

\* ------------------------------------------------------------- claim C5
\* C5: for a Discriminator with either value of conditional, after build(),
\* forward() of an input of shape channels x 64 x 64 passes through
\* feature_map x 32 x 32, (feature_map*2) x 16 x 16, (feature_map*4) x 8 x
\* 8, (feature_map*8) x 4 x 4 in that order and returns 1 x 1 x 1 per image,
\* every layer's expected input channel count matching what it receives.
C5_DiscriminatorForward ==
    ( /\ cls = "Discriminator" /\ main # None
      /\ Called("forward")
      /\ ret.input = Shape(channels, 64, 64) )
    => /\ ret.ok
       /\ EveryLayerFed
       /\ ConvOutputs = << Shape(feature_map, 32, 32),
                           Shape(feature_map * 2, 16, 16),
                           Shape(feature_map * 4, 8, 8),
                           Shape(feature_map * 8, 4, 4),
                           Shape(1, 1, 1) >>
       /\ ret.out = Shape(1, 1, 1)

C5_Witness ==
    /\ cls = "Discriminator" /\ conditional /\ main # None
    /\ Called("forward") /\ ret.input = Shape(channels, 64, 64)
    /\ ret.ok /\ ret.out = Shape(1, 1, 1)

\* ------------------------------------------------------------- claim C6
\* A plain transpose-convolution decoder: convolutions, all of them
\* transposed.
IsTransposeDecoder(layers) ==
    /\ ConvIndices(layers) # {}
    /\ \A i \in ConvIndices(layers) : layers[i].kind = "ConvTranspose2d"

\* An encoder-bottleneck-decoder: plain convolutions, then the convolution
\* into the bottleneck width, then transposed convolutions.
IsEncoderBottleneckDecoder(layers) ==
    \E b \in ConvIndices(layers) :
        /\ layers[b].kind = "Conv2d"
        /\ layers[b].cout = BottleneckChannels
        /\ \E i \in ConvIndices(layers) : i < b
        /\ \E i \in ConvIndices(layers) : i > b
        /\ \A i \in ConvIndices(layers) :
              /\ i < b => layers[i].kind = "Conv2d"
              /\ i > b => layers[i].kind = "ConvTranspose2d"

\* A stack of plain convolutions only.
IsConvOnly(layers) ==
    /\ ConvIndices(layers) # {}
    /\ \A i \in ConvIndices(layers) : layers[i].kind = "Conv2d"

\* The object's stack for the given flag has the same layer kinds whatever
\* the other stored hyperparameters are.
KindsDependOnFlagOnly(flag) ==
    \A lv \in LatentSizes, fm \in FeatureMaps, ch \in ChannelCounts :
        Kinds(Stack(cls, flag, lv, fm, ch))
            = Kinds(Stack(cls, flag, latent_vector, feature_map, channels))

\* C6 as stated: for both components the flag selects which of two
\* topologies build() assigns to main, the plain transpose-convolution
\* decoder when conditional is False and the encoder-bottleneck-decoder when
\* it is True, and no other hyperparameter changes the layer kinds.
C6_FlagSelectsTopology ==
    main # None =>
        /\ ~conditional => IsTransposeDecoder(main.layers)
        /\ conditional => IsEncoderBottleneckDecoder(main.layers)
        /\ KindsDependOnFlagOnly(conditional)

\* C6 amended: for the Generator the flag selects between the plain
\* transpose-convolution decoder (False) and the encoder-bottleneck-decoder
\* (True).  For the Discriminator the flag selects no topology: main is the
\* same stack of plain convolutions for both values and the flag only
\* decides whether those convolutions carry a bias.  For both, no other
\* stored hyperparameter changes the sequence of layer kinds.
C6_FlagSelectsGeneratorTopologyOnly ==
    main # None =>
        /\ Kinds(main.layers)
             = Kinds(Stack(cls, conditional, latent_vector, feature_map,
                           channels))
        /\ KindsDependOnFlagOnly(TRUE) /\ KindsDependOnFlagOnly(FALSE)
        /\ cls = "Generator" =>
              /\ ~conditional => IsTransposeDecoder(main.layers)
              /\ conditional => IsEncoderBottleneckDecoder(main.layers)
        /\ cls = "Discriminator" =>
              /\ IsConvOnly(main.layers)
              /\ Kinds(main.layers)
                   = Kinds(Stack(cls, ~conditional, latent_vector,
                                 feature_map, channels))
              /\ \A i \in ConvIndices(main.layers) :
                    (main.layers[i].bias # Absent) <=> conditional

C6_Witness ==
    /\ cls = "Discriminator" /\ conditional /\ Called("build")
    /\ main # None /\ IsConvOnly(main.layers)

\* ------------------------------------------------------------- claim C7
\* The modules init_weights can have been given.
Modules ==
    {layer} \cup (IF main = None THEN {}
                  ELSE {main.layers[i] : i \in 1..Len(main.layers)})

\* C7: every layer init_weights modifies, that is every layer whose class
\* name contains 'Conv' or 'BatchNorm', has its weights re-initialised from
\* a Normal distribution with mean 0 and standard deviation 0.02.
C7_WeightsNormalMeanZero ==
    \A m \in Modules :
        ((IsConv(m) \/ IsBatchNorm(m)) /\ m.weight # Default)
        => m.weight = normal_(0, 2)

\* ------------------------------------------------------------- claim C8
\* The channels the stack is fed: the latent vector for the DCGAN generator,
\* image channels otherwise.
StackInput ==
    IF cls = "Generator" /\ ~conditional THEN latent_vector ELSE channels

\* The output channels of the nearest convolution before layer i, or the
\* stack's input channels when there is none.
ChannelsBefore(layers, i) ==
    LET prev == {j \in ConvIndices(layers) : j < i}
    IN IF prev = {} THEN StackInput
       ELSE layers[CHOOSE j \in prev : \A q \in prev : q <= j].cout

\* C8: in every stack build() can assign to main, every layer's declared
\* input channel count equals the output channel count of the nearest
\* preceding convolution (the stack's input channels for the first layer),
\* including across the 4000-channel bottleneck of the context encoder.
C8_ChannelsChain ==
    main # None =>
        \A i \in 1..Len(main.layers) :
            (IsConv(main.layers[i]) \/ IsBatchNorm(main.layers[i]))
            => main.layers[i].cin = ChannelsBefore(main.layers, i)

\* ------------------------------------------------------------- claim C9
Hyperparameters == <<latent_vector, feature_map, channels, conditional>>

\* What one call may change.
C9_Step ==
    /\ UNCHANGED <<Hyperparameters, criterion>>
    /\ ret'.op = "build" =>
          /\ UNCHANGED optimizer
          /\ main' # None /\ main' # main
          /\ optimizer # None => optimizer.params \cap parameters(main') = {}
    /\ ret'.op = "define_optim" => UNCHANGED main
    /\ ret'.op = "forward" => UNCHANGED <<main, optimizer>>

\* C9: right after construction main, optimizer and criterion are None;
\* then build() changes only main (a fresh stack each call) and leaves
\* optimizer unchanged, define_optim() changes only optimizer, forward()
\* changes no field, the hyperparameters keep their constructor values and
\* criterion stays None.
C9_Frame ==
    /\ (main = None /\ optimizer = None /\ criterion = None)
    /\ [][C9_Step]_vars
    /\ [](criterion = None)

C9_Witness ==
    /\ Called("build") /\ builds >= 2
    /\ optimizer # None /\ optimizer.params # parameters(main)

\* ------------------------------------------------------------ claim C10
\* What the claim says init_weights leaves of a module.
C10_Expected(before) ==
    IF IsConv(before)
    THEN [before EXCEPT !.weight = normal_(0, 2)]
    ELSE IF IsBatchNorm(before)
    THEN [before EXCEPT !.weight = normal_(100, 2), !.bias = constant_(0)]
    ELSE before

\* One init_weights call: the module it was given is left as the claim
\* says, and nothing else changes.
C10_Step ==
    ret'.op = "init_weights" =>
        LET t == ret'.arg
        IN /\ t = -1 =>
                /\ \E m \in ForeignModules : layer' = C10_Expected(m)
                /\ UNCHANGED main
           /\ t = 0 => UNCHANGED <<main, layer>>
           /\ t >= 1 =>
                /\ UNCHANGED layer
                /\ main'.id = main.id
                /\ Len(main'.layers) = Len(main.layers)
                /\ \A i \in 1..Len(main.layers) :
                      main'.layers[i] = IF i = t
                                        THEN C10_Expected(main.layers[i])
                                        ELSE main.layers[i]

\* The two classes' static methods agree on every module.
C10_SameForBothClasses ==
    \A m \in Modules \cup ForeignModules \cup {main} :
        Generator_init_weights(m) = Discriminator_init_weights(m)

\* C10: init_weights tests 'Conv' first: a layer whose class name contains
\* 'Conv' gets only its weight re-initialised and its bias is left as it
\* was; otherwise a layer whose class name contains 'BatchNorm' gets its
\* weight re-initialised with mean 1 and its bias set to 0; any other layer
\* is left unchanged; and the Generator's and the Discriminator's
\* init_weights give the same result on every layer.
C10_Dispatch ==
    /\ [][C10_Step]_vars
    /\ []C10_SameForBothClasses

C10_Witness ==
    /\ Called("init_weights") /\ ret.arg = -1
    /\ layer.kind = "ConvBatchNorm2d"
    /\ layer.weight = normal_(0, 2) /\ layer.bias = Default

=============================================================================
